---------------------------- MODULE Spec2Model ----------------------------
(***************************************************************************)
(* A model of the synchronisation core of marked-space: the provenance     *)
(* marker written into a page's version message, the remote snapshot, the  *)
(* reconciliation of local documents against it, the property differ and   *)
(* the link registry.                                                      *)
(*                                                                         *)
(* Strings are sequences of one-character strings, so that split, trim and *)
(* strip_prefix are computed character by character as the code does.      *)
(***************************************************************************)
EXTENDS Integers, Sequences, FiniteSets, TLC

VARIABLES
    marker,     \* the marker round trip: source, checksum, message, decoded
    props,      \* the property differ: front matter, remote properties, ops
    links,      \* the link registry: documents, pages, registry, rendered links
    local,      \* the documents of the local space
    remote,     \* the nodes of the remote space, as the server holds them
    run,        \* the sync run: snapshot, plan, calls issued, failures
    last,       \* the local documents and outcome of the last finished run
    parse,      \* parse_markdown: the document, the result, the rendered body
    fetch       \* get_all: the two listings, the snapshot, the orphans

vars == <<marker, props, links, local, remote, run, last, parse, fetch>>
sync == <<local, remote, run, last>>
notMarker == <<props, links, sync, parse, fetch>>
notProps == <<marker, links, sync, parse, fetch>>
notLinks == <<marker, props, sync, parse, fetch>>
notSync == <<marker, props, links, parse, fetch>>
notParse == <<marker, props, links, sync, fetch>>
notFetch == <<marker, props, links, sync, parse>>

(***************************************************************************)
(* Bounds of the model.                                                    *)
(***************************************************************************)
MaxPathLen == 3
MaxClauses == 2
MaxRevision == 2
MaxRemote == 2
MaxRuns == 2
MaxChanges == 1
MaxNodes == 3
MaxListing == 2

(***************************************************************************)
(* std::str helpers.                                                       *)
(***************************************************************************)
SeqsUpTo(S, n) == UNION {[1..k -> S] : k \in 0..n}

Whitespace == {" "}

starts_with(s, p) == Len(s) >= Len(p) /\ SubSeq(s, 1, Len(p)) = p

\* str::find: index of the first occurrence of ch, 0 when there is none
find(s, ch) ==
    IF \E i \in 1..Len(s) : s[i] = ch
    THEN CHOOSE i \in 1..Len(s) : s[i] = ch /\ \A j \in 1..(i-1) : s[j] # ch
    ELSE 0

RECURSIVE split(_, _)
split(s, ch) ==
    LET i == find(s, ch)
    IN  IF i = 0 THEN <<s>>
        ELSE <<SubSeq(s, 1, i-1)>> \o split(SubSeq(s, i+1, Len(s)), ch)

RECURSIVE trim_start(_)
trim_start(s) ==
    IF Len(s) > 0 /\ s[1] \in Whitespace THEN trim_start(Tail(s)) ELSE s

RECURSIVE trim_end(_)
trim_end(s) ==
    IF Len(s) > 0 /\ s[Len(s)] \in Whitespace
    THEN trim_end(SubSeq(s, 1, Len(s)-1)) ELSE s

trim(s) == trim_start(trim_end(s))

replace(s, from, to) == [i \in 1..Len(s) |-> IF s[i] = from THEN to ELSE s[i]]

RECURSIVE join(_, _)
join(parts, sep) ==
    IF Len(parts) = 0 THEN <<>>
    ELSE IF Len(parts) = 1 THEN parts[1]
    ELSE parts[1] \o sep \o join(Tail(parts), sep)

(***************************************************************************)
(* The marker: confluence_page.rs and markdown_page.rs.                    *)
(***************************************************************************)
version_message_prefix ==
    <<"u","p","d","a","t","e","d"," ","b","y"," ",
      "m","a","r","k","e","d","s","p","a","c","e",":">>

KeySource == <<"s","o","u","r","c","e">>
KeyChecksum == <<"c","h","e","c","k","s","u","m">>

\* format!("{} source={}; checksum={}", prefix, source.replace('\\', "/"), checksum)
version_message(source, checksum) ==
    version_message_prefix \o <<" ">> \o KeySource \o <<"=">>
        \o replace(source, "\\", "/")
        \o <<";", " ">> \o KeyChecksum \o <<"=">> \o checksum

Some(p) == [tag |-> "Some", path |-> p]
None == [tag |-> "None", path |-> <<>>]
Panic == [tag |-> "Panic", path |-> <<>>]

\* the split at the last '=' instead of the first
rsplit_once(kv, ch) ==
    LET hits == {i \in 1..Len(kv) : kv[i] = ch}
        i == CHOOSE k \in hits : \A j \in hits : j <= k
    IN  IF hits = {} THEN <<>>
        ELSE <<SubSeq(kv, 1, i-1), SubSeq(kv, i+1, Len(kv))>>

\* kv.split_once('='): <<key, value>> of the first '=', or <<>> when none
split_once(kv, ch) ==
    LET i == find(kv, ch)
    IN  IF i = 0 THEN <<>>
        ELSE <<SubSeq(kv, 1, i-1), SubSeq(kv, i+1, Len(kv))>>

\* HashMap::get after collect(): the value of the last pair with that key
hashmap_get(pairs, key) ==
    LET hits == {i \in 1..Len(pairs) : pairs[i][1] = key}
    IN  IF hits = {} THEN None
        ELSE Some(pairs[CHOOSE i \in hits : \A j \in hits : j <= i][2])

\* extract_path with the keys and values left untrimmed
extract_path_untrimmed(message) ==
    IF starts_with(message, version_message_prefix)
    THEN LET data == SubSeq(message, Len(version_message_prefix) + 1, Len(message))
             clauses == split(data, ";")
         IN  IF \E i \in 1..Len(clauses) : split_once(clauses[i], "=") = <<>>
             THEN Panic
             ELSE hashmap_get([i \in 1..Len(clauses) |-> split_once(clauses[i], "=")],
                              KeySource)
    ELSE None

\* extract_path decoding the whole message when the prefix is missing
extract_path_lenient(message) ==
    LET data == IF starts_with(message, version_message_prefix)
                THEN SubSeq(message, Len(version_message_prefix) + 1, Len(message))
                ELSE message
        clauses == split(data, ";")
    IN  IF \E i \in 1..Len(clauses) : split_once(clauses[i], "=") = <<>>
        THEN Panic
        ELSE LET kvs == [i \in 1..Len(clauses) |->
                           LET kv == split_once(clauses[i], "=")
                           IN  <<trim(kv[1]), trim(kv[2])>>]
             IN  hashmap_get(kvs, KeySource)

extract_path(message) ==
    IF starts_with(message, version_message_prefix)
    THEN LET data == SubSeq(message, Len(version_message_prefix) + 1, Len(message))
             clauses == split(data, ";")
         IN  IF \E i \in 1..Len(clauses) : split_once(clauses[i], "=") = <<>>
             THEN Panic      \* unwrap() of None
             ELSE LET kvs == [i \in 1..Len(clauses) |->
                                LET kv == split_once(clauses[i], "=")
                                IN  <<trim(kv[1]), trim(kv[2])>>]
                  IN  hashmap_get(kvs, KeySource)
    ELSE None

\* every page counts as managed
is_managed_always(message) == TRUE

\* ConfluencePageData::is_managed
is_managed(message) == starts_with(message, version_message_prefix)

(***************************************************************************)
(* The property differ: page_emojis.rs and page_properties.rs.             *)
(***************************************************************************)
HexDigits == <<"0","1","2","3","4","5","6","7","8","9","a","b","c","d","e","f">>
UpperHexDigits == <<"0","1","2","3","4","5","6","7","8","9","A","B","C","D","E","F">>

\* format!("{:x}", n)
RECURSIVE lower_hex(_)
lower_hex(n) ==
    IF n < 16 THEN <<HexDigits[n + 1]>>
    ELSE lower_hex(n \div 16) \o <<HexDigits[(n % 16) + 1]>>

\* format!("{:X}", n)
RECURSIVE upper_hex(_)
upper_hex(n) ==
    IF n < 16 THEN <<UpperHexDigits[n + 1]>>
    ELSE upper_hex(n \div 16) \o <<UpperHexDigits[(n % 16) + 1]>>

\* emojis::get_by_shortcode: the code points of the emoji, <<>> when the
\* shortcode is unknown
get_by_shortcode(shortcode) ==
    CASE shortcode = "heart_eyes" -> <<128525>>
      [] shortcode = "grinning" -> <<128512>>
      [] shortcode = "us" -> <<127482, 127480>>
      [] OTHER -> <<>>

NoValue == [some |-> FALSE, s |-> <<>>]
SomeValue(s) == [some |-> TRUE, s |-> s]

\* parse_emoji formatting the code point in upper case
parse_emoji_upper(emoji_string) ==
    IF emoji_string = "" THEN NoValue
    ELSE IF get_by_shortcode(emoji_string) # <<>>
    THEN SomeValue(upper_hex(get_by_shortcode(emoji_string)[1]))
    ELSE NoValue

\* parse_emoji passing an unknown shortcode through
parse_emoji_unchecked(emoji_string) ==
    IF emoji_string = "" THEN NoValue
    ELSE IF get_by_shortcode(emoji_string) # <<>>
    THEN SomeValue(lower_hex(get_by_shortcode(emoji_string)[1]))
    ELSE SomeValue(<<"?">>)

parse_emoji(emoji_string) ==
    IF emoji_string = "" THEN NoValue
    ELSE IF get_by_shortcode(emoji_string) # <<>>
    THEN SomeValue(lower_hex(get_by_shortcode(emoji_string)[1]))
    ELSE NoValue        \* print_warning("Unknown short code")

JsonNull == [json |-> "null", s |-> <<>>]
JsonString(s) == [json |-> "string", s |-> s]

EMOJI_TITLE_PUBLISHED_PROP == "emoji-title-published"

ContentProperty(id, key, value, number) ==
    [id |-> id, key |-> key, value |-> value,
     version |-> [number |-> number, message |-> ""]]

\* the existing property of that key, <<>> when there is none
existing_property(existing_properties, key) ==
    SelectSeq(existing_properties, LAMBDA q : q.key = key)

get_property_updates(emoji_string, existing_properties) ==
    LET emoji == parse_emoji(emoji_string)
        found == existing_property(existing_properties, EMOJI_TITLE_PUBLISHED_PROP)
    IN  IF emoji.some
        THEN IF found = <<>>
             THEN <<ContentProperty("", EMOJI_TITLE_PUBLISHED_PROP, JsonString(emoji.s), 0)>>
             ELSE IF found[1].value = JsonString(emoji.s) THEN <<>>
             ELSE <<ContentProperty(found[1].id, EMOJI_TITLE_PUBLISHED_PROP,
                                    JsonString(emoji.s), found[1].version.number + 1)>>
        ELSE IF found = <<>> THEN <<>>
             ELSE <<[found[1] EXCEPT !.value = JsonNull]>>

(***************************************************************************)
(* SpecProps: repeated diffs of one page's properties.                     *)
(***************************************************************************)
EmojiStrings == {"", "heart_eyes", "grinning", "us", "not_a_short_code"}
RemoteValues == {JsonString(lower_hex(128525)), JsonString(lower_hex(128512)),
                 JsonString(<<"1","F","6","0","D">>)}
PropertyIds == {"123456", "77"}

\* the properties the remote page can hold: at most one per key
RemoteProperties ==
    LET emoji == {<<>>} \cup {<<ContentProperty(i, EMOJI_TITLE_PUBLISHED_PROP, v, n)>> :
                        i \in PropertyIds, v \in RemoteValues, n \in 0..MaxRevision}
        other == {<<>>} \cup {<<ContentProperty("9", "editor", JsonString(<<"v","2">>), n)>> :
                        n \in 0..MaxRevision}
    IN  {o \o e : o \in other, e \in emoji} \cup {e \o o : o \in other, e \in emoji}

PropsIdle == [step |-> "idle", emoji |-> "", existing |-> <<>>, updates |-> <<>>]

\* the page's front matter and the remote page's properties, as fetched
LoadPage ==
    /\ props.step = "idle"
    /\ \E e \in EmojiStrings, x \in RemoteProperties :
        props' = [props EXCEPT !.step = "loaded", !.emoji = e, !.existing = x]
    /\ UNCHANGED notProps

Diff ==
    /\ props.step = "loaded"
    /\ props' = [props EXCEPT !.step = "diffed",
                    !.updates = get_property_updates(props.emoji, props.existing)]
    /\ UNCHANGED notProps

\* the remote service stores the emitted ops; the front matter may then change
ApplyUpdates ==
    /\ props.step = "diffed"
    /\ \A i \in 1..Len(props.updates) : props.updates[i].version.number <= MaxRevision
    /\ \E e \in EmojiStrings :
        props' = [props EXCEPT !.step = "loaded", !.emoji = e, !.updates = <<>>,
            !.existing =
                LET kept == SelectSeq(props.existing,
                        LAMBDA q : \A i \in 1..Len(props.updates) : props.updates[i].key # q.key)
                    stored == SelectSeq(props.updates, LAMBDA u : u.value # JsonNull)
                IN  kept \o [i \in 1..Len(stored) |->
                        IF stored[i].id = "" THEN [stored[i] EXCEPT !.id = "1001"]
                        ELSE stored[i]]]
    /\ UNCHANGED notProps

PropsNext == LoadPage \/ Diff \/ ApplyUpdates

(***************************************************************************)
(* Links: markdown_page.rs (collection), local_link.rs and                 *)
(* link_generator.rs (registry).  A url is a sequence of lexemes: a        *)
(* scheme, "/", "#", ".", ".." or a name; a source path is the sequence of  *)
(* its components.                                                         *)
(***************************************************************************)
Ok(v) == [ok |-> TRUE, v |-> v]
Err == [ok |-> FALSE, v |-> <<>>]

\* Path::parent of a relative file path
parent(path) == SubSeq(path, 1, Len(path) - 1)

\* the components of base/rel with "." dropped and ".." resolved; Err when
\* ".." climbs above the space root
RECURSIVE normalize(_, _)
normalize(base, rel) ==
    IF rel = <<>> THEN Ok(base)
    ELSE IF rel[1] = "." \/ rel[1] = "" THEN normalize(base, Tail(rel))
    ELSE IF rel[1] = ".."
         THEN IF base = <<>> THEN Err ELSE normalize(parent(base), Tail(rel))
    ELSE normalize(base \o <<rel[1]>>, Tail(rel))

\* the names between the "/" of a url path
components(urlpath) ==
    LET parts == split(urlpath, "/")
    IN  [i \in 1..Len(parts) |-> IF parts[i] = <<>> THEN "" ELSE parts[i][1]]

\* LocalLink::from_str(url, relative_to): path and anchor of a link
LocalLink_from_str(url, relative_to) ==
    LET h == find(url, "#")
        urlpath == IF h = 0 THEN url ELSE SubSeq(url, 1, h - 1)
        anchor == IF h = 0 THEN <<>> ELSE SubSeq(url, h + 1, Len(url))
        target == normalize(relative_to, components(urlpath))
    IN  IF urlpath = <<>> \/ ~target.ok THEN Err
        ELSE Ok([path |-> target.v, anchor |-> anchor])

\* the link test of parse_markdown letting https:// through as a local link
is_external_http_only(url) ==
    \/ starts_with(url, <<"http://">>)
    \/ starts_with(url, <<"ac:">>)

\* a link is left to the renderer as it is: http://, https:// or ac:
is_external(url) ==
    \/ starts_with(url, <<"http://">>)
    \/ starts_with(url, <<"https://">>)
    \/ starts_with(url, <<"ac:">>)

\* the link collection of parse_markdown resolving against the space root
\* instead of the directory of the source
collect_links_from_root(source, urls) ==
    LET locals == SelectSeq(urls, LAMBDA u : ~is_external(u))
    IN  [i \in 1..Len(locals) |-> LocalLink_from_str(locals[i], <<>>)]

\* the NodeValue::Link arm of parse_markdown: one entry per link that is not
\* external, Err where LocalLink::from_str fails
collect_links(source, urls) ==
    LET locals == SelectSeq(urls, LAMBDA u : ~is_external(u))
    IN  [i \in 1..Len(locals) |-> LocalLink_from_str(locals[i], parent(source))]

\* the nodes of a parsed document, in document order
Heading(level, text) == [type |-> "Heading", level |-> level, text |-> text, url |-> <<>>]
Paragraph(text) == [type |-> "Paragraph", level |-> 0, text |-> text, url |-> <<>>]
Link(url) == [type |-> "Link", level |-> 0, text |-> "", url |-> url]

FrontMatter(emoji, unknown_keys) == [emoji |-> emoji, unknown_keys |-> unknown_keys]

ErrMissingHeading == "missing first heading for title"
ErrHeadingLevel == "first heading in file should be level 1"
ErrLocalLink == "Failed to parse local link"
WarnUnknownKeys == "Unknown top level front matter keys"

\* ConfluenceError::parsing_errors(source, errors)
parsing_errors(source, errors) ==
    [ok |-> FALSE, v |-> [source |-> source, errors |-> errors]]

\* the title check accepting a first heading of any level
heading_errors_any_level(nodes) ==
    IF \A i \in 1..Len(nodes) : nodes[i].type # "Heading"
    THEN {ErrMissingHeading} ELSE {}

\* the title check of parse_markdown: a first heading, of level 1
heading_errors(nodes) ==
    LET headings == {i \in 1..Len(nodes) : nodes[i].type = "Heading"}
        first_heading == CHOOSE i \in headings : \A j \in headings : i <= j
    IN  IF headings = {} THEN {ErrMissingHeading}
        ELSE IF nodes[first_heading].level # 1 THEN {ErrHeadingLevel}
        ELSE {}

\* parse_markdown: the page, or the errors collected
parse_markdown(source, nodes, fm) ==
    LET headings == {i \in 1..Len(nodes) : nodes[i].type = "Heading"}
        first_heading == CHOOSE i \in headings : \A j \in headings : i <= j
        node_links == SelectSeq(nodes, LAMBDA n : n.type = "Link")
        urls == [i \in 1..Len(node_links) |-> node_links[i].url]
        found == collect_links(source, urls)
        local_links == SelectSeq(found, LAMBDA l : l.ok)
        errors == (IF \E i \in 1..Len(found) : ~found[i].ok THEN {ErrLocalLink} ELSE {})
                  \cup heading_errors(nodes)
        warnings == IF fm.unknown_keys # <<>> THEN <<WarnUnknownKeys>> ELSE <<>>
    IN  IF errors = {}
        THEN Ok([source |-> source, title |-> nodes[first_heading].text, urls |-> urls,
                 local_links |-> [i \in 1..Len(local_links) |-> local_links[i].v],
                 \* heading_node.detach()
                 root |-> [i \in 1..(Len(nodes) - 1) |->
                              IF i < first_heading THEN nodes[i] ELSE nodes[i + 1]],
                 warnings |-> warnings, front_matter |-> fm])
        ELSE parsing_errors(source, errors)

EmptyRegistry ==
    [filename_to_title |-> <<>>, title_to_id |-> <<>>, path_to_id |-> <<>>,
     conflict |-> <<>>]

\* the value stored under key in a list of <<key, value>>, last entry first
lookup(entries, key) ==
    LET hits == {i \in 1..Len(entries) : entries[i][1] = key}
    IN  IF hits = {} THEN <<>>
        ELSE <<entries[CHOOSE i \in hits : \A j \in hits : j <= i][2]>>

\* the key of a local path: the path normalized
path_key(source) == normalize(<<>>, source).v

\* the path that registered the key
registered_as(reg, key) ==
    LET i == CHOOSE j \in 1..Len(reg.filename_to_title) : reg.filename_to_title[j][1] = key
    IN  reg.filename_to_title[i][3]

\* registration where a later document silently takes the key of an earlier
register_markdown_page_overwrite(reg, page) ==
    [reg EXCEPT !.filename_to_title =
                    @ \o <<<<path_key(page.source), page.title, page.source>>>>]

\* LinkGenerator::register_markdown_page: the normalized path is the key; a
\* key already registered is a KeyConflict naming both paths
register_markdown_page(reg, page) ==
    IF lookup(reg.filename_to_title, path_key(page.source)) # <<>>
    THEN [reg EXCEPT !.conflict =
                <<registered_as(reg, path_key(page.source)), page.source>>]
    ELSE [reg EXCEPT !.filename_to_title =
                @ \o <<<<path_key(page.source), page.title, page.source>>>>]

\* LinkGenerator::register_confluence_page: the id under the title, and
\* under the source path the marker names
register_confluence_page(reg, node) ==
    [reg EXCEPT !.title_to_id = @ \o <<<<node.title, node.id>>>>,
                !.path_to_id = IF node.path.tag = "Some"
                               THEN @ \o <<<<node.path.path, node.id>>>> ELSE @]

RECURSIVE register_confluence_pages(_, _)
register_confluence_pages(reg, nodes) ==
    IF nodes = <<>> THEN reg
    ELSE register_confluence_pages(register_confluence_page(reg, nodes[1]), Tail(nodes))

\* LinkGenerator::get_file_id: the remote id of a local path
get_file_id(reg, path) ==
    LET byPath == lookup(reg.path_to_id, path)
        title == lookup(reg.filename_to_title, path)
    IN  IF byPath # <<>> THEN byPath
        ELSE IF title = <<>> THEN <<>>
        ELSE lookup(reg.title_to_id, title[1])

\* what the renderer writes for one url of a page
Rendered(kind, url, id, anchor) ==
    [kind |-> kind, url |-> url, id |-> id, anchor |-> anchor]

render_link(reg, source, url) ==
    IF is_external(url) THEN Rendered("external", url, "", <<>>)
    ELSE LET link == LocalLink_from_str(url, parent(source)).v
             id == get_file_id(reg, link.path)
         IN  IF id # <<>> THEN Rendered("page", <<>>, id[1], link.anchor)
             ELSE Rendered("unresolved", url, "", <<>>)   \* with a warning

render_links(reg, page) ==
    [i \in 1..Len(page.urls) |-> render_link(reg, page.source, page.urls[i])]

\* the warnings of a rendering: one per link left unresolved
link_warnings(out) == {out[i].url : i \in {j \in 1..Len(out) : out[j].kind = "unresolved"}}

(***************************************************************************)
(* SpecLinks: registration of every page, then rendering, in any order.    *)
(***************************************************************************)
DocA == <<"docs", "a.md">>
DocB == <<"docs", "sub", "b.md">>
DocIndex == <<"index.md">>
\* a second spelling of the path of docs/a.md
DocAlias == <<"docs", ".", "a.md">>
DocSources == {DocA, DocB, DocIndex, DocAlias}

UrlSubB == <<".", "/", "sub", "/", "b.md", "#", "s">>
UrlPlainB == <<"sub", "/", "b.md">>
UrlUpA == <<"..", "/", "a.md", "#", "t">>
UrlA == <<"a.md">>
UrlFromRoot == <<"docs", "/", "sub", "/", "b.md">>
UrlHttps == <<"https://", "example.com", "/", "b.md">>
UrlHttp == <<"http://", "example.com">>
UrlMacro == <<"ac:", "macro">>
UrlAboveRoot == <<"..", "/", "..", "/", "x.md">>
UrlMissing == <<"missing.md">>

LinksOfA ==
    {<<>>, <<UrlSubB, UrlHttps>>, <<UrlHttp, UrlMissing>>}
        \cup {<<u>> : u \in {UrlSubB, UrlPlainB, UrlUpA, UrlA, UrlFromRoot, UrlHttps,
                             UrlHttp, UrlMacro, UrlAboveRoot, UrlMissing}}
LinksOfB == {<<>>, <<UrlUpA>>, <<UrlA>>, <<UrlAboveRoot>>}
LinksOfIndex == {<<>>, <<UrlFromRoot>>, <<UrlMissing>>}

\* a file: its heading, then its links
RawDoc(source, title, urls) ==
    [source |-> source,
     nodes |-> <<Heading(1, title)>> \o [i \in 1..Len(urls) |-> Link(urls[i])],
     fm |-> FrontMatter("", <<>>)]

\* the documents of a space: each file present or not
LocalSpaces ==
    {a \cup b \cup i \cup x :
        x \in {{}, {RawDoc(DocAlias, "A2", <<>>)}},
        a \in {{}} \cup {{RawDoc(DocA, "A", u)} : u \in LinksOfA},
        b \in {{}} \cup {{RawDoc(DocB, t, u)} : t \in {"B", "A"}, u \in LinksOfB},
        i \in {{}} \cup {{RawDoc(DocIndex, "Home", u)} : u \in LinksOfIndex}}

RemotePage(id, title, path) == [id |-> id, title |-> title, path |-> path]

\* the pages the remote listing yields
RemoteListings ==
    {<<>>,
     <<RemotePage("47", "B", None)>>,
     <<RemotePage("48", "A", Some(DocA))>>,
     <<RemotePage("49", "Old", Some(DocB)), RemotePage("47", "B", None)>>,
     <<RemotePage("47", "B", None), RemotePage("48", "A", Some(DocA))>>}

LinksIdle ==
    [step |-> "idle", pages |-> {}, failed |-> {}, listing |-> <<>>,
     registered |-> {}, listed |-> FALSE, registry |-> EmptyRegistry,
     created |-> 0, rendered |-> {}]

PageOf(source) == CHOOSE pg \in links.pages : pg.source = source
Sources(pages) == {pg.source : pg \in pages}

\* registration taken for complete once the remote listing is registered
RegistrationListed == links.step = "register" /\ links.listed

\* every page and every listed remote page is in the registry
RegistrationComplete ==
    /\ links.step = "register"
    /\ links.registered = Sources(links.pages)
    /\ links.listed

\* rendering starting before every page is registered
RenderableEarly == links.step = "register" /\ links.listed

\* rendering starts when phase 1 is over and every page has its remote id
Renderable ==
    /\ RegistrationComplete
    /\ \A pg \in links.pages : get_file_id(links.registry, path_key(pg.source)) # <<>>

\* the files of the space are parsed; a file that fails to parse is reported
\* and left out
LoadSpace ==
    /\ links.step = "idle"
    /\ \E space \in LocalSpaces, listing \in RemoteListings :
        LET parsed(d) == parse_markdown(d.source, d.nodes, d.fm)
        IN  links' = [links EXCEPT !.step = "register",
                        !.pages = {parsed(d).v : d \in {x \in space : parsed(x).ok}},
                        !.failed = {d.source : d \in {x \in space : ~parsed(x).ok}},
                        !.listing = listing]
    /\ UNCHANGED notLinks

RegisterPage ==
    /\ links.step = "register"
    /\ \E pg \in links.pages :
        /\ pg.source \notin links.registered
        /\ LET reg == register_markdown_page(links.registry, pg)
           IN  links' = [links EXCEPT !.registered = @ \cup {pg.source},
                            !.registry = reg,
                            !.step = IF reg.conflict # <<>> THEN "aborted" ELSE @]
    /\ UNCHANGED notLinks

RegisterListing ==
    /\ links.step = "register"
    /\ ~links.listed
    /\ links' = [links EXCEPT !.listed = TRUE,
                    !.registry = register_confluence_pages(@, links.listing)]
    /\ UNCHANGED notLinks

\* the ids the remote service gives to the pages it creates
NewIds == <<"101", "102", "103">>

\* a registered page without a remote id gets a page created under its title
CreatePage ==
    /\ RegistrationComplete
    /\ \E pg \in links.pages :
        /\ pg.source \in links.registered
        /\ get_file_id(links.registry, path_key(pg.source)) = <<>>
        /\ LET node == RemotePage(NewIds[links.created + 1], pg.title, None)
           IN  links' = [links EXCEPT !.created = @ + 1,
                           !.listing = @ \o <<node>>,
                           !.registry = register_confluence_page(@, node)]
    /\ UNCHANGED notLinks

RenderPage ==
    /\ Renderable
    /\ \E pg \in links.pages :
        /\ pg.source \notin {r.source : r \in links.rendered}
        /\ links' = [links EXCEPT !.rendered = @ \cup
                        {[source |-> pg.source,
                          out |-> render_links(links.registry, pg),
                          warnings |-> link_warnings(render_links(links.registry, pg))]}]
    /\ UNCHANGED notLinks

LinksNext == LoadSpace \/ RegisterPage \/ RegisterListing \/ CreatePage \/ RenderPage

(***************************************************************************)
(* The sync run: the remote snapshot (confluence_page.rs), rendering       *)
(* (markdown_page.rs) and the reconciliation of the two.                   *)
(***************************************************************************)
\* sha256_digest of a rendered content, the body and the target of its
\* link: a digest per content, no collisions
sha256_digest(content) ==
    <<"c", HexDigits[content[1] + 1], HexDigits[content[2] + 1]>>

\* no link, or a link left unresolved
NoTarget == 0

\* the rendered body: the text, and the page each link resolves to
to_html(doc, link_generator) ==
    <<doc.body,
      IF doc.links = <<>> \/ lookup(link_generator, doc.links[1]) = <<>> THEN NoTarget
      ELSE lookup(link_generator, doc.links[1])[1]>>

\* rendering that leaves the links as they are written
render_unresolved(doc, link_generator) ==
    [title |-> doc.title, content |-> <<doc.body, NoTarget>>, source |-> doc.source,
     parent |-> <<>>, checksum |-> sha256_digest(<<doc.body, NoTarget>>)]

\* MarkdownPage::render: the checksum is the digest of the rendered content
render(doc, link_generator) ==
    [title |-> doc.title, content |-> to_html(doc, link_generator), source |-> doc.source,
     parent |-> <<>>, checksum |-> sha256_digest(to_html(doc, link_generator))]

Version(number, message) == [number |-> number, message |-> message]

\* a node as the server holds it
RemoteNode(id, title, kind, status, version, properties) ==
    [id |-> id, title |-> title, kind |-> kind, status |-> status,
     version |-> version, properties |-> properties]

PageData(status, path, version) ==
    [type |-> "Page", status |-> status, path |-> path, version |-> version]
ConfluenceFolder == [type |-> "Folder", status |-> "", path |-> None, version |-> Version(0, <<>>)]

\* ConfluenceNode::new_from_page_bulk
new_from_page_bulk(bulk_page) ==
    [id |-> bulk_page.id, parent_id |-> <<>>, title |-> bulk_page.title,
     data |-> PageData(bulk_page.status, extract_path(bulk_page.version.message),
                       bulk_page.version)]

\* ConfluenceNode::folder_from_descendant
folder_from_descendant(d) ==
    [id |-> d.id, parent_id |-> <<>>, title |-> d.title, data |-> ConfluenceFolder]

\* ConfluenceNode::page_data
page_data(node) == IF node.data.type = "Page" THEN <<node.data>> ELSE <<>>

\* responses::Descendant
Descendant(id, title, type) == [id |-> id, title |-> title, _type |-> type]

\* an item of a paginator that did not come through: the request for its
\* batch failed, or the record could not be read
Lost(record) == [ok |-> FALSE, v |-> record]

\* the listing of the pages of the space, every record delivered
get_all_pages_in_space(nodes) ==
    LET pages == SelectSeq(nodes, LAMBDA n : n.kind = "page")
    IN  [i \in 1..Len(pages) |-> Ok(pages[i])]

\* the listing of the descendants of the home page, every record delivered
get_all_pages_from_homepage(nodes) ==
    [i \in 1..Len(nodes) |-> Ok(Descendant(nodes[i].id, nodes[i].title, nodes[i].kind))]

\* ConfluenceNode::get_all: every page of the space, then every descendant
\* of the home page that is a folder; filter_map(|f| f.ok()) passes over the
\* items that did not come through
get_all(page_items, descendant_items) ==
    LET pages == SelectSeq(page_items, LAMBDA f : f.ok)
        folders == SelectSeq(descendant_items, LAMBDA d : d.ok /\ d.v._type = "folder")
    IN  [i \in 1..Len(pages) |-> new_from_page_bulk(pages[i].v)]
            \o [i \in 1..Len(folders) |-> folder_from_descendant(folders[i].v)]

\* extract_path aborts on one of the listed pages
get_all_panics(nodes) ==
    \E i \in 1..Len(nodes) :
        nodes[i].kind = "page" /\ extract_path(nodes[i].version.message) = Panic

\* ConfluenceNode::archive doing the opposite
archive_as_unarchive(node) == [op |-> "unarchive", id |-> node.id, reason |-> ""]

\* ConfluenceNode::archive: archive_page(id, "Orphaned")
archive(node) == [op |-> "archive", id |-> node.id, reason |-> "Orphaned"]

\* ConfluenceNode::unarchive archiving again
unarchive_as_archive(node) == [op |-> "archive", id |-> node.id, reason |-> "Orphaned"]

\* ConfluenceNode::unarchive: unarchive_page(id)
unarchive(node) == [op |-> "unarchive", id |-> node.id, reason |-> ""]

\* a snapshot node is a page this program wrote
managed_page(node) ==
    page_data(node) # <<>> /\ is_managed(node.data.version.message)

\* the value of the checksum clause of a marker
marker_checksum(message) ==
    LET data == SubSeq(message, Len(version_message_prefix) + 1, Len(message))
        clauses == split(data, ";")
        kvs == [i \in 1..Len(clauses) |->
                  LET kv == split_once(clauses[i], "=")
                  IN  IF kv = <<>> THEN <<<<>>, <<>>>> ELSE <<trim(kv[1]), trim(kv[2])>>]
    IN  hashmap_get(kvs, KeyChecksum)

\* matching by title as well as by path
find_match_by_title(snapshot, doc) ==
    SelectSeq(snapshot, LAMBDA n :
        managed_page(n) /\ (n.data.path = Some(doc.source) \/ n.title = doc.title))

\* the managed pages whose marker names the source path of the document
find_match(snapshot, doc) ==
    SelectSeq(snapshot, LAMBDA n : managed_page(n) /\ n.data.path = Some(doc.source))

\* the server's node of that id
node_of(nodes, id) == nodes[CHOOSE i \in 1..Len(nodes) : nodes[i].id = id]

Item(action, source, id) ==
    [action |-> action, source |-> source, id |-> id, title |-> "",
     expected |-> 0, message |-> <<>>, op |-> ContentProperty("", "", JsonNull, 0)]

property_items(doc, id, existing) ==
    LET ops == get_property_updates(doc.emoji, existing)
    IN  [i \in 1..Len(ops) |-> [Item("Property", doc.source, id) EXCEPT !.op = ops[i]]]

PathA == <<"a">>
PathB == <<"b">>
PathOdd == <<"a", ";", "b", "=", "c">>

\* the documents in the order of the walk of the space, by file name
WalkOrder == <<PathA, PathOdd, PathB>>
walk(docs) ==
    LET present == SelectSeq(WalkOrder, LAMBDA p : \E d \in docs : d.source = p)
    IN  [i \in 1..Len(present) |-> CHOOSE d \in docs : d.source = present[i]]

\* the local documents that no managed page matches, in walk order
unmatched(snapshot, docs) ==
    SelectSeq(walk(docs), LAMBDA d : find_match(snapshot, d) = <<>>)

\* the registry of a run, <<path, id>>: the managed pages under the path of
\* their marker, then every local document under its own path with the id
\* of the page it is matched to or will be created as
link_generator_of(snapshot, docs) ==
    LET named == SelectSeq(snapshot, LAMBDA n : managed_page(n) /\ n.data.path.tag = "Some")
        new == unmatched(snapshot, docs)
        present == walk(docs)
        id_of(d) == IF find_match(snapshot, d) # <<>> THEN find_match(snapshot, d)[1].id
                    ELSE Len(snapshot) + (CHOOSE k \in 1..Len(new) : new[k] = d)
    IN  [i \in 1..Len(named) |-> <<named[i].data.path.path, named[i].id>>]
            \o [i \in 1..Len(present) |-> <<present[i].source, id_of(present[i])>>]

\* what the run does for one local document
decide(snapshot, docs, doc) ==
    LET found == find_match(snapshot, doc)
        rendered == render(doc, link_generator_of(snapshot, docs))
    IN  IF found = <<>> THEN "Create"
        ELSE IF marker_checksum(found[1].data.version.message) = Some(rendered.checksum)
        THEN "NoOp"
        ELSE "UpdateContent"

plan_document(snapshot, nodes, docs, doc) ==
    LET found == find_match(snapshot, doc)
        rendered == render(doc, link_generator_of(snapshot, docs))
        write == [Item("Create", doc.source, 0) EXCEPT !.title = rendered.title,
                        !.message = version_message(rendered.source, rendered.checksum)]
    IN  IF found = <<>> THEN <<write>> \o property_items(doc, 0, <<>>)
        ELSE (IF found[1].data.status = "archived"
              THEN <<Item("Unarchive", doc.source, found[1].id)>> ELSE <<>>)
          \o (IF decide(snapshot, docs, doc) = "UpdateContent"
              THEN <<[write EXCEPT !.action = "UpdateContent", !.id = found[1].id,
                            !.expected = found[1].data.version.number]>>
              ELSE <<>>)
          \o property_items(doc, found[1].id, node_of(nodes, found[1].id).properties)

\* the managed current pages that no local document matches
orphans(snapshot, docs) ==
    SelectSeq(snapshot, LAMBDA n :
        /\ managed_page(n)
        /\ n.data.status = "current"
        /\ \A d \in docs : n.data.path # Some(d.source))

RECURSIVE plan_documents(_, _, _, _)
plan_documents(snapshot, nodes, docs, rest) ==
    IF rest = <<>> THEN <<>>
    ELSE plan_document(snapshot, nodes, docs, rest[1])
            \o plan_documents(snapshot, nodes, docs, Tail(rest))

reconcile(snapshot, nodes, docs) ==
    LET gone == orphans(snapshot, docs)
    IN  plan_documents(snapshot, nodes, docs, walk(docs))
            \o [i \in 1..Len(gone) |-> Item("Archive", <<>>, gone[i].id)]

(***************************************************************************)
(* Spec: sync runs over a local space that changes between the runs.       *)
(***************************************************************************)
LocalDoc(source, title, body, emoji) ==
    [source |-> source, title |-> title, body |-> body, emoji |-> emoji, links |-> <<>>]

Bodies == {1, 2}

SeedLocals ==
    {a \cup b \cup o :
        a \in {{}} \cup {{[LocalDoc(PathA, "T", c, e) EXCEPT !.links = l]} :
                            c \in Bodies, e \in {"", "heart_eyes"}, l \in {<<>>, <<PathB>>}},
        b \in {{}} \cup {{LocalDoc(PathB, "T", c, "")} : c \in Bodies},
        o \in {{}, {LocalDoc(PathOdd, "O", 1, "")}}}

HeartEyes == <<ContentProperty("123456", EMOJI_TITLE_PUBLISHED_PROP,
                               JsonString(lower_hex(128525)), 0)>>

\* a managed page without a source clause
MarkerWithoutSource ==
    version_message_prefix \o <<" ">> \o KeyChecksum \o <<"=">> \o sha256_digest(<<1, NoTarget>>)

\* the nodes a remote space can hold before the first run: pages written by
\* hand, pages of earlier runs, a folder
SeedNodes(id) ==
    {RemoteNode(id, "T", "page", st, Version(1, <<"x">>), <<>>) : st \in {"current", "archived"}}
    \cup {RemoteNode(id, "U", "page", "current", Version(1, <<"x">>), HeartEyes)}
    \cup {RemoteNode(id, "T", "page", st, Version(1, version_message(PathA, sha256_digest(<<1, NoTarget>>))), q) :
            st \in {"current", "archived"}, q \in {<<>>, HeartEyes}}
    \cup {RemoteNode(id, "T", "page", st, Version(1, version_message(PathB, sha256_digest(<<1, NoTarget>>))), <<>>) :
            st \in {"current", "archived"}}
    \cup {RemoteNode(id, "U", "page", "current", Version(1, MarkerWithoutSource), <<>>)}
    \cup {RemoteNode(id, "T", "folder", "current", Version(1, <<>>), <<>>)}

SeedRemotes ==
    UNION {{r \in [1..k -> UNION {SeedNodes(i) : i \in 1..k}] :
                \A i \in 1..k : r[i].id = i} : k \in 0..MaxRemote}

RunIdle ==
    [pc |-> "seed", n |-> 0, changes |-> 0, docs |-> {}, snapshot |-> <<>>,
     decisions |-> {}, plan |-> <<>>, planned |-> <<>>, calls |-> <<>>, failures |-> {},
     prev |-> [ok |-> FALSE, docs |-> {}]]

LastIdle == [ok |-> FALSE, docs |-> {}]

\* the local files and the remote space as they are found
Seed ==
    /\ run.pc = "seed"
    /\ \E docs \in SeedLocals, nodes \in SeedRemotes :
        /\ local' = docs
        /\ remote' = nodes
    /\ run' = [run EXCEPT !.pc = "ready"]
    /\ UNCHANGED <<last, notSync>>

\* the local space changes between two runs
Changeable ==
    run.pc = "ready" /\ run.n > 0 /\ run.n < MaxRuns /\ run.changes < MaxChanges

EditFile ==
    /\ Changeable
    /\ \E d \in local, c \in Bodies :
        /\ c # d.body
        /\ local' = (local \ {d}) \cup {[d EXCEPT !.body = c]}
    /\ run' = [run EXCEPT !.changes = @ + 1]
    /\ UNCHANGED <<remote, last, notSync>>

DeleteFile ==
    /\ Changeable
    /\ \E d \in local : local' = local \ {d}
    /\ run' = [run EXCEPT !.changes = @ + 1]
    /\ UNCHANGED <<remote, last, notSync>>

AddFile ==
    /\ Changeable
    /\ \E docs \in SeedLocals :
        /\ Cardinality(docs) = 1
        /\ \A d \in docs : \A x \in local : x.source # d.source
        /\ local' = local \cup docs
    /\ run' = [run EXCEPT !.changes = @ + 1]
    /\ UNCHANGED <<remote, last, notSync>>

\* a file is renamed, its title and content kept
RenameFile ==
    /\ Changeable
    /\ \E d \in local, to \in {PathA, PathB} :
        /\ \A x \in local : x.source # to
        /\ local' = (local \ {d}) \cup {[d EXCEPT !.source = to]}
    /\ run' = [run EXCEPT !.changes = @ + 1]
    /\ UNCHANGED <<remote, last, notSync>>

\* a failure of the run, recorded against the document it concerns
Failure(kind, source) == <<kind, source>>

\* the run starts: the remote listing is drained into the snapshot
StartRun ==
    /\ run.pc = "ready"
    /\ run.n < MaxRuns
    /\ IF get_all_panics(remote)
       THEN /\ run' = [run EXCEPT !.n = @ + 1, !.changes = 0, !.docs = local,
                        !.snapshot = <<>>, !.decisions = {}, !.plan = <<>>,
                        !.planned = <<>>, !.calls = <<>>,
                        !.failures = {Failure("Panic", <<>>)}, !.prev = last]
            /\ last' = [ok |-> FALSE, docs |-> local]
       ELSE /\ run' = [run EXCEPT !.pc = "planning", !.docs = local,
                        !.snapshot = get_all(get_all_pages_in_space(remote),
                                            get_all_pages_from_homepage(remote)), !.decisions = {}, !.plan = <<>>,
                        !.planned = <<>>, !.calls = <<>>, !.failures = {}, !.prev = last]
            /\ last' = last
    /\ UNCHANGED <<local, remote, notSync>>

\* the plan of the run
Reconcile ==
    /\ run.pc = "planning"
    /\ run' = [run EXCEPT !.pc = "applying",
                !.decisions = {<<d.source, decide(run.snapshot, run.docs, d)>> : d \in run.docs},
                !.plan = reconcile(run.snapshot, remote, run.docs),
                !.planned = reconcile(run.snapshot, remote, run.docs)]
    /\ UNCHANGED <<local, remote, last, notSync>>

Applying(action) ==
    run.pc = "applying" /\ run.plan # <<>> /\ run.plan[1].action = action

SetNode(id, node) == [i \in 1..Len(remote) |-> IF remote[i].id = id THEN node ELSE remote[i]]

\* create(parent, title, body, marker): a new current page
ApplyCreate ==
    /\ Applying("Create")
    /\ LET item == run.plan[1]
           id == Len(remote) + 1
       IN  /\ remote' = Append(remote,
                    RemoteNode(id, item.title, "page", "current", Version(1, item.message), <<>>))
           /\ run' = [run EXCEPT
                    !.plan = [i \in 1..(Len(run.plan) - 1) |->
                                IF run.plan[i + 1].source = item.source
                                THEN [run.plan[i + 1] EXCEPT !.id = id] ELSE run.plan[i + 1]],
                    !.calls = Append(@, [op |-> "create", id |-> id, reason |-> ""])]
    /\ UNCHANGED <<local, last, notSync>>

\* the server never refusing an update
revision_never_moved(node, expected) == FALSE

\* the server's test of an update: the revision is no longer the expected one
revision_moved(node, expected) == node.version.number # expected

\* another writer stores a revision of a page this run is about to update
RemoteEdit ==
    /\ run.pc = "applying"
    /\ \E i \in 1..Len(run.plan) :
        /\ run.plan[i].action = "UpdateContent"
        /\ LET node == node_of(remote, run.plan[i].id)
           IN  /\ node.version.number = run.plan[i].expected
               /\ remote' = SetNode(node.id,
                        [node EXCEPT !.version = Version(@.number + 1, @.message)])
    /\ UNCHANGED <<local, run, last, notSync>>

\* update(id, expectedRevision, body, marker): refused when the revision moved
ApplyUpdate ==
    /\ Applying("UpdateContent")
    /\ LET item == run.plan[1]
           node == node_of(remote, item.id)
           call == [op |-> "update", id |-> item.id, reason |-> "", expected |-> item.expected]
       IN  IF ~revision_moved(node, item.expected)
           THEN /\ remote' = SetNode(item.id, [node EXCEPT !.title = item.title,
                                !.version = Version(item.expected + 1, item.message)])
                /\ run' = [run EXCEPT !.plan = Tail(@), !.calls = Append(@, call)]
           ELSE /\ remote' = remote
                /\ run' = [run EXCEPT !.plan = Tail(@), !.calls = Append(@, call),
                                !.failures = @ \cup {Failure("RemoteConflict", item.source)}]
    /\ UNCHANGED <<local, last, notSync>>

\* setStatus as the call says
SetStatus(call) ==
    SetNode(call.id, [node_of(remote, call.id) EXCEPT
                        !.status = IF call.op = "archive" THEN "archived" ELSE "current"])

ApplyArchive ==
    /\ Applying("Archive")
    /\ LET call == archive(node_of(run.snapshot, run.plan[1].id))
       IN  /\ remote' = SetStatus(call)
           /\ run' = [run EXCEPT !.plan = Tail(@), !.calls = Append(@, call)]
    /\ UNCHANGED <<local, last, notSync>>

ApplyUnarchive ==
    /\ Applying("Unarchive")
    /\ LET call == unarchive(node_of(run.snapshot, run.plan[1].id))
       IN  /\ remote' = SetStatus(call)
           /\ run' = [run EXCEPT !.plan = Tail(@), !.calls = Append(@, call)]
    /\ UNCHANGED <<local, last, notSync>>

\* propertyWrite: the property is stored, or deleted when its value is null
ApplyProperty ==
    /\ Applying("Property")
    /\ LET item == run.plan[1]
           node == node_of(remote, item.id)
           kept == SelectSeq(node.properties, LAMBDA q : q.key # item.op.key)
           stored == IF item.op.value = JsonNull THEN <<>>
                     ELSE IF item.op.id = "" THEN <<[item.op EXCEPT !.id = "1001"]>>
                     ELSE <<item.op>>
       IN  /\ remote' = SetNode(item.id, [node EXCEPT !.properties = kept \o stored])
           /\ run' = [run EXCEPT !.plan = Tail(@),
                        !.calls = Append(@, [op |-> "property", id |-> item.id, reason |-> ""])]
    /\ UNCHANGED <<local, last, notSync>>

\* the run ends when every item of the plan has been applied
EndRun ==
    /\ run.pc = "applying"
    /\ run.plan = <<>>
    /\ run' = [run EXCEPT !.pc = "ready", !.n = @ + 1, !.changes = 0]
    /\ last' = [ok |-> run.failures = {}, docs |-> run.docs]
    /\ UNCHANGED <<local, remote, notSync>>

Next ==
    \/ Seed \/ EditFile \/ DeleteFile \/ AddFile \/ RenameFile
    \/ StartRun \/ Reconcile \/ RemoteEdit
    \/ ApplyCreate \/ ApplyUpdate \/ ApplyArchive \/ ApplyUnarchive \/ ApplyProperty
    \/ EndRun

(***************************************************************************)
(* SpecMarker: version_message and extract_path on bounded inputs.         *)
(***************************************************************************)
PathAlphabet == {"a", "/", ".", "=", ";", " ", "\\"}
SourcePaths == SeqsUpTo(PathAlphabet, MaxPathLen)
Checksums == {<<"0">>, <<"c", "1">>}

ClauseValues == {<<>>, <<"a">>, <<"F","I","L","E">>, <<"a","=","b">>}
ClauseKeys == {KeySource, KeyChecksum}
Clauses ==
    {pad \o k \o <<"=">> \o v : pad \in {<<>>, <<" ">>}, k \in ClauseKeys, v \in ClauseValues}
        \cup {<<>>, <<"a">>}
MessageHeads ==
    {<<>>, version_message_prefix,
     SubSeq(version_message_prefix, 1, Len(version_message_prefix) - 1),
     <<"n","o","t"," ","a"," ">>}
ForeignMessages ==
    {h \o join(cs, <<";">>) : h \in MessageHeads, cs \in SeqsUpTo(Clauses, MaxClauses)}

MarkerIdle ==
    [step |-> "idle", source |-> <<>>, checksum |-> <<>>,
     message |-> <<>>, decoded |-> None]

\* a document's source path and the checksum of its rendered content
Input ==
    /\ marker.step = "idle"
    /\ \E s \in SourcePaths, c \in Checksums :
        marker' = [marker EXCEPT !.step = "input", !.source = s, !.checksum = c]
    /\ UNCHANGED notMarker

\* RenderedPage::version_message writes the marker
Encode ==
    /\ marker.step = "input"
    /\ marker' = [marker EXCEPT !.step = "encoded",
                    !.message = version_message(marker.source, marker.checksum)]
    /\ UNCHANGED notMarker

\* a marker of the same fields with the checksum clause first
EncodeSwapped ==
    /\ marker.step = "input"
    /\ marker' = [marker EXCEPT !.step = "swapped",
                    !.message = version_message_prefix \o KeyChecksum \o <<"=">>
                        \o marker.checksum \o <<";", " ">> \o KeySource \o <<"=">>
                        \o replace(marker.source, "\\", "/")]
    /\ UNCHANGED notMarker

\* a version message that this program did not write
Foreign ==
    /\ marker.step = "idle"
    /\ \E m \in ForeignMessages :
        marker' = [marker EXCEPT !.step = "foreign", !.message = m]
    /\ UNCHANGED notMarker

\* ConfluenceNode::new_from_page_bulk decodes the message of a listed page
Decode ==
    /\ marker.step \in {"encoded", "swapped", "foreign"}
    /\ marker' = [marker EXCEPT !.step = "decoded_" \o marker.step,
                    !.decoded = extract_path(marker.message)]
    /\ UNCHANGED notMarker

MarkerNext == Input \/ Encode \/ EncodeSwapped \/ Foreign \/ Decode

(***************************************************************************)
(* SpecParse: parse_markdown and the rendering of the body on bounded      *)
(* documents.                                                              *)
(***************************************************************************)
NodeAlphabet ==
    {Heading(1, "T"), Heading(2, "S"), Paragraph("p"),
     Link(UrlA), Link(UrlAboveRoot), Link(UrlHttps)}

FrontMatters == {FrontMatter("", <<>>), FrontMatter("", <<"page_emoji">>)}

\* the storage format of one node (render_confluence_storage)
element(node) ==
    CASE node.type = "Heading" -> <<"h", node.level, node.text>>
      [] node.type = "Paragraph" -> <<"p", 0, node.text>>
      [] node.type = "Link" -> <<"a", 0, node.url>>

\* MarkdownPage::to_html_string
to_html_string(page) == [i \in 1..Len(page.root) |-> element(page.root[i])]

ParseIdle ==
    [step |-> "idle", source |-> <<>>, nodes |-> <<>>, fm |-> FrontMatter("", <<>>),
     result |-> Err, html |-> <<>>]

\* from_file: the front matter and the content of a file are read
ReadFile ==
    /\ parse.step = "idle"
    /\ \E source \in {DocA, DocIndex}, nodes \in SeqsUpTo(NodeAlphabet, MaxNodes),
          fm \in FrontMatters :
        parse' = [parse EXCEPT !.step = "read", !.source = source, !.nodes = nodes, !.fm = fm]
    /\ UNCHANGED notParse

ParseFile ==
    /\ parse.step = "read"
    /\ parse' = [parse EXCEPT !.step = "parsed",
                    !.result = parse_markdown(parse.source, parse.nodes, parse.fm)]
    /\ UNCHANGED notParse

RenderBody ==
    /\ parse.step = "parsed"
    /\ parse.result.ok
    /\ parse' = [parse EXCEPT !.step = "rendered", !.html = to_html_string(parse.result.v)]
    /\ UNCHANGED notParse

ParseNext == ReadFile \/ ParseFile \/ RenderBody

(***************************************************************************)
(* SpecSnapshot: get_all over the two listings of a remote space.          *)
(***************************************************************************)
\* the records the server holds: pages of the space, descendants of the
\* home page
ListedPages ==
    {RemoteNode(1, "T", "page", "current", Version(1, version_message(PathA, sha256_digest(<<1, NoTarget>>))), <<>>),
     RemoteNode(2, "U", "page", "archived", Version(1, <<"x">>), <<>>)}
ListedDescendants ==
    {Descendant(3, "F", "folder"), Descendant(1, "T", "page"), Descendant(4, "W", "whiteboard")}

\* a listing: each record comes through or does not
Deliveries(records) ==
    SeqsUpTo({Ok(r) : r \in records} \cup {Lost(r) : r \in records}, MaxListing)

FetchIdle ==
    [step |-> "idle", pages |-> <<>>, descendants |-> <<>>, snapshot |-> <<>>,
     orphaned |-> <<>>]

\* the remote service answers the two listing requests
List ==
    /\ fetch.step = "idle"
    /\ \E pages \in Deliveries(ListedPages), descendants \in Deliveries(ListedDescendants) :
        fetch' = [fetch EXCEPT !.step = "listed", !.pages = pages,
                                !.descendants = descendants]
    /\ UNCHANGED notFetch

\* get_all drains the two listings into the snapshot
GetAll ==
    /\ fetch.step = "listed"
    /\ fetch' = [fetch EXCEPT !.step = "drained",
                    !.snapshot = get_all(fetch.pages, fetch.descendants)]
    /\ UNCHANGED notFetch

\* the orphans of the snapshot when the local space is empty
FindOrphans ==
    /\ fetch.step = "drained"
    /\ fetch' = [fetch EXCEPT !.step = "planned",
                    !.orphaned = reconcile(fetch.snapshot, <<>>, {})]
    /\ UNCHANGED notFetch

FetchNext == List \/ GetAll \/ FindOrphans

(***************************************************************************)
(* The specifications.                                                     *)
(***************************************************************************)
\* nothing has been read, planned or written yet
Init ==
    /\ marker = MarkerIdle
    /\ props = PropsIdle
    /\ links = LinksIdle
    /\ local = {}
    /\ remote = <<>>
    /\ run = RunIdle
    /\ last = LastIdle
    /\ parse = ParseIdle
    /\ fetch = FetchIdle

Spec == Init /\ [][Next]_vars

SpecMarker == Init /\ [][MarkerNext]_vars

SpecProps == Init /\ [][PropsNext]_vars

SpecLinks == Init /\ [][LinksNext]_vars

SpecParse == Init /\ [][ParseNext]_vars

SpecSnapshot == Init /\ [][FetchNext]_vars

(***************************************************************************)
(* Claims about the marker.                                                *)
(***************************************************************************)
Contains(s, ch) == \E i \in 1..Len(s) : s[i] = ch

\* a typical source path: no ';', no '=', no leading or trailing whitespace,
\* '/' separators
Typical(s) ==
    /\ ~Contains(s, ";") /\ ~Contains(s, "=") /\ ~Contains(s, "\\")
    /\ (Len(s) > 0 => s[1] \notin Whitespace /\ s[Len(s)] \notin Whitespace)

\* C5: for a typical source path and any checksum, decoding the message
\* built by version_message, or the same two clauses in the other order,
\* recovers exactly that source path.
C5_MarkerRoundTrip ==
    (marker.step \in {"decoded_encoded", "decoded_swapped"} /\ Typical(marker.source))
        => marker.decoded = Some(marker.source)

C5_Witness ==
    /\ marker.step = "decoded_swapped"
    /\ Typical(marker.source) /\ Len(marker.source) = MaxPathLen
    /\ Contains(marker.source, "/")
    /\ marker.decoded = Some(marker.source)

\* the message begins with the 23 characters of the fixed prefix
BeginsWithFixedPrefix(m) ==
    /\ Len(m) >= Len(version_message_prefix)
    /\ \A i \in 1..Len(version_message_prefix) : m[i] = version_message_prefix[i]

\* the text "source" occurs somewhere in m
MentionsSource(m) ==
    \E i \in 1..Len(m) :
        i + Len(KeySource) - 1 <= Len(m) /\ SubSeq(m, i, i + Len(KeySource) - 1) = KeySource

\* C6: a page is managed iff its message starts with the fixed prefix; a
\* message without the prefix has no path; a recovered path implies managed;
\* a managed message without a source clause has no recoverable path.
C6_ManagedIffPrefix ==
    marker.step \in {"decoded_encoded", "decoded_swapped", "decoded_foreign"} =>
        /\ is_managed(marker.message) <=> BeginsWithFixedPrefix(marker.message)
        /\ ~BeginsWithFixedPrefix(marker.message) => marker.decoded = None
        /\ marker.decoded.tag = "Some" => is_managed(marker.message)
        /\ ~MentionsSource(marker.message) => marker.decoded.tag # "Some"

C6_Witness ==
    /\ marker.step = "decoded_foreign"
    /\ is_managed(marker.message)
    /\ Len(marker.message) > Len(version_message_prefix)
    /\ marker.decoded = None

(***************************************************************************)
(* Claims about the property differ.                                       *)
(***************************************************************************)
\* the indicator value a front matter emoji stands for, <<>> when it stands
\* for none (empty, or no known shortcode)
ExpectedEmoji(e) ==
    CASE e = "heart_eyes" -> <<<<"1","f","6","0","d">>>>
      [] e = "grinning" -> <<<<"1","f","6","0","0">>>>
      [] e = "us" -> <<<<"1","f","1","f","a">>>>
      [] OTHER -> <<>>

RemoteEmoji == {props.existing[i] : i \in {j \in 1..Len(props.existing) :
                    props.existing[j].key = EMOJI_TITLE_PUBLISHED_PROP}}

\* C7: the diff table of get_property_updates: nothing for absent/absent and
\* for equal values, one remove op with the remote id and a null value, one
\* create op at revision 0, one update op at the remote revision plus one;
\* never more than one op for the key.
C7_PropertyDiffTable ==
    props.step = "diffed" =>
        LET wanted == ExpectedEmoji(props.emoji)
            ops == props.updates
        IN  /\ Len(ops) <= 1
            /\ \A i \in 1..Len(ops) : ops[i].key = EMOJI_TITLE_PUBLISHED_PROP
            /\ (wanted = <<>> /\ RemoteEmoji = {}) => ops = <<>>
            /\ \A q \in RemoteEmoji :
                /\ wanted = <<>> =>
                    Len(ops) = 1 /\ ops[1].value = JsonNull /\ ops[1].id = q.id
                /\ (wanted # <<>> /\ q.value = JsonString(wanted[1])) => ops = <<>>
                /\ (wanted # <<>> /\ q.value # JsonString(wanted[1])) =>
                    /\ Len(ops) = 1
                    /\ ops[1].value = JsonString(wanted[1])
                    /\ ops[1].id = q.id
                    /\ ops[1].version.number = q.version.number + 1
            /\ (wanted # <<>> /\ RemoteEmoji = {}) =>
                /\ Len(ops) = 1
                /\ ops[1].value = JsonString(wanted[1])
                /\ ops[1].version.number = 0

C7_Witness ==
    /\ props.step = "diffed"
    /\ props.emoji = "heart_eyes"
    /\ Len(props.updates) = 1
    /\ \E q \in RemoteEmoji :
        /\ q.version.number = 1
        /\ q.value = JsonString(<<"1","f","6","0","0">>)
        /\ props.updates[1].version.number = 2

\* C8: an emitted op carries the remote revision plus one only when the
\* value changes, a remove op does not carry an incremented revision, and a
\* diff whose wanted value equals the remote value emits no op.
C8_RevisionOnlyOnChange ==
    props.step = "diffed" =>
        LET wanted == ExpectedEmoji(props.emoji)
        IN  \A q \in RemoteEmoji :
            /\ \A i \in 1..Len(props.updates) :
                /\ props.updates[i].version.number = q.version.number + 1 =>
                        (wanted # <<>> /\ q.value # JsonString(wanted[1]))
                /\ props.updates[i].value = JsonNull =>
                        props.updates[i].version.number = q.version.number
            /\ (wanted # <<>> /\ q.value = JsonString(wanted[1])) => props.updates = <<>>

\* a property this program created and then updated is removed
C8_Witness ==
    /\ props.step = "diffed"
    /\ Len(props.updates) = 1
    /\ props.updates[1].value = JsonNull
    /\ \E q \in RemoteEmoji : q.id = "1001" /\ q.version.number >= 1

(***************************************************************************)
(* Claims about link resolution.                                           *)
(***************************************************************************)
RECURSIVE SetToSeq(_)
SetToSeq(S) ==
    IF S = {} THEN <<>>
    ELSE LET x == CHOOSE y \in S : TRUE IN <<x>> \o SetToSeq(S \ {x})

RECURSIVE RegisterAll(_, _)
RegisterAll(reg, pages) ==
    IF pages = <<>> THEN reg
    ELSE RegisterAll(register_markdown_page(reg, pages[1]), Tail(pages))

\* the registry of one fixed order: the listing first, then the pages
ReferenceRegistry ==
    RegisterAll(register_confluence_pages(EmptyRegistry, links.listing),
                SetToSeq(links.pages))

\* C9: the rendered links of a page are those of one fixed registration
\* order, whatever the order the pages were registered and rendered in; and
\* docs/a.md linking ./sub/b.md#s is rendered as the page of docs/sub/b.md
\* with fragment s.
C9_OrderIndependent ==
    \A r \in links.rendered :
        /\ r.out = render_links(ReferenceRegistry, PageOf(r.source))
        /\ \A i \in 1..Len(r.out) :
            (r.source = DocA /\ PageOf(DocA).urls[i] = UrlSubB /\ DocB \in Sources(links.pages))
                => /\ r.out[i].kind = "page"
                   /\ r.out[i].anchor = <<"s">>
                   /\ <<r.out[i].id>> = get_file_id(ReferenceRegistry, DocB)

\* docs/a.md was registered before docs/sub/b.md, and its link to b.md is
\* rendered as b.md's page
C9_Witness ==
    /\ Cardinality(links.rendered) = 3
    /\ links.registry.filename_to_title[1][1] = DocA
    /\ links.registry.filename_to_title[3][1] = DocB
    /\ \E r \in links.rendered :
        r.source = DocA /\ PageOf(DocA).urls = <<UrlSubB>> /\ r.out[1].kind = "page"

\* where a url of a page leads: <<path>> of the file it names, <<>> for an
\* external url
LinkTarget(source, url) ==
    CASE url \in {UrlHttps, UrlHttp, UrlMacro} -> <<>>
      [] source = DocA /\ url \in {UrlSubB, UrlPlainB} -> <<DocB>>
      [] source = DocA /\ url = UrlUpA -> <<<<"a.md">>>>
      [] source = DocA /\ url = UrlA -> <<DocA>>
      [] source = DocA /\ url = UrlFromRoot -> <<<<"docs", "docs", "sub", "b.md">>>>
      [] source = DocA /\ url = UrlMissing -> <<<<"docs", "missing.md">>>>
      [] source = DocB /\ url = UrlUpA -> <<DocA>>
      [] source = DocB /\ url = UrlA -> <<<<"docs", "sub", "a.md">>>>
      [] source = DocB /\ url = UrlAboveRoot -> <<<<"x.md">>>>
      [] source = DocIndex /\ url = UrlFromRoot -> <<DocB>>
      [] source = DocIndex /\ url = UrlMissing -> <<<<"missing.md">>>>

LinkAnchor(url) ==
    CASE url = UrlSubB -> <<"s">>
      [] url = UrlUpA -> <<"t">>
      [] OTHER -> <<>>

\* the remote page of a local file: the last listed page whose marker names
\* the file, else the last listed page with the file's title
PageIdOf(path) ==
    LET byPath == SelectSeq(links.listing, LAMBDA n : n.path = Some(path))
        title == (CHOOSE pg \in links.pages : path_key(pg.source) = path).title
        byTitle == SelectSeq(links.listing, LAMBDA n : n.title = title)
    IN  IF byPath # <<>> THEN byPath[Len(byPath)].id ELSE byTitle[Len(byTitle)].id

\* the registry knows a path that is a local file or that the marker of a
\* listed page names
Registered(path) ==
    \/ \E s \in Sources(links.pages) : path_key(s) = path
    \/ \E i \in 1..Len(links.listing) : links.listing[i].path = Some(path)

\* C10: an http:// or https:// url is not collected as a local link and is
\* rendered unchanged; a url naming a registered file is rendered as that
\* file's remote page with the anchor kept; any other url is left as it is
\* with a warning, and the page is rendered all the same.
C10_LinkOutcomes ==
    \A r \in links.rendered :
        LET pg == PageOf(r.source)
        IN  /\ Len(r.out) = Len(pg.urls)
            /\ Len(pg.local_links) <=
                    Cardinality({i \in 1..Len(pg.urls) : pg.urls[i] \notin {UrlHttps, UrlHttp}})
            /\ \A i \in 1..Len(pg.urls) :
                LET target == LinkTarget(r.source, pg.urls[i])
                IN  /\ pg.urls[i] \in {UrlHttps, UrlHttp} =>
                            r.out[i].kind = "external" /\ r.out[i].url = pg.urls[i]
                    /\ (target # <<>> /\ Registered(target[1])) =>
                            /\ r.out[i].kind = "page"
                            /\ r.out[i].id = PageIdOf(target[1])
                            /\ r.out[i].anchor = LinkAnchor(pg.urls[i])
                    /\ (target # <<>> /\ ~Registered(target[1])) =>
                            /\ r.out[i].kind = "unresolved"
                            /\ r.out[i].url = pg.urls[i]
                            /\ pg.urls[i] \in r.warnings

\* a page with an external link and a missing target is rendered
C10_Witness ==
    \E r \in links.rendered :
        /\ PageOf(r.source).urls = <<UrlHttp, UrlMissing>>
        /\ r.out[1].kind = "external"
        /\ r.out[2].kind = "unresolved"
        /\ \E q \in links.rendered : \E i \in 1..Len(q.out) :
                q.out[i].kind = "page" /\ q.out[i].anchor = <<"t">>

(***************************************************************************)
(* Claims about the sync run.                                              *)
(***************************************************************************)
\* the run at hand follows a finished run without failure over the same
\* local documents
Rerun == run.n >= 1 /\ run.prev.ok /\ run.prev.docs = run.docs /\ run.pc # "seed"

Calls(op) == SelectSeq(run.calls, LAMBDA c : c.op = op)
CallsTo(id) == SelectSeq(run.calls, LAMBDA c : c.id = id)

\* C1: a run that follows a successful run over the same local documents
\* plans NoOp for every document and issues no mutating call.
C1_Idempotent ==
    Rerun => /\ run.calls = <<>>
             /\ \A dec \in run.decisions : dec[2] = "NoOp"

\* the same for the spaces whose source paths are all typical
C1_IdempotentTypical ==
    (Rerun /\ \A d \in run.docs : Typical(d.source)) =>
        /\ run.calls = <<>>
        /\ \A dec \in run.decisions : dec[2] = "NoOp"

C1_TypicalWitness ==
    /\ Rerun /\ run.pc = "ready" /\ run.n = 2
    /\ Cardinality(run.docs) = 2
    /\ \A d \in run.docs : Typical(d.source)
    /\ Len(remote) = 4

\* a run has ended without failure
RunDone == run.pc = "ready" /\ run.n >= 1 /\ run.failures = {}

\* between the last successful run and this one the file a was renamed to b,
\* title and content kept, and nothing else changed
Renamed(a, b) ==
    /\ run.n >= 1 /\ run.prev.ok /\ a # b
    /\ \A x \in run.prev.docs : x.source # b
    /\ \E d \in run.prev.docs :
        /\ d.source = a
        /\ run.docs = (run.prev.docs \ {d}) \cup {[d EXCEPT !.source = b]}

\* the pages of the snapshot whose marker names the path
Naming(p) == SelectSeq(run.snapshot, LAMBDA n : managed_page(n) /\ n.data.path = Some(p))

CreatesFor(p) ==
    SelectSeq(run.calls, LAMBDA c :
        c.op = "create" /\ extract_path(node_of(remote, c.id).version.message) = Some(p))
ArchivesOf(p) ==
    SelectSeq(run.calls, LAMBDA c :
        c.op = "archive" /\ node_of(run.snapshot, c.id).data.path = Some(p))

RenameOutcome(a, b) ==
    /\ Len(CreatesFor(b)) = 1
    /\ Len(ArchivesOf(a)) = 1
    /\ Calls("update") = <<>>
    /\ Calls("unarchive") = <<>>

SnapshotNodes == {run.snapshot[i] : i \in 1..Len(run.snapshot)}

\* a managed page of the snapshot that no local document of the run matches
Orphan(n) == managed_page(n) /\ \A d \in run.docs : n.data.path # Some(d.source)

\* the archived page a local document is matched to, its content unchanged
Reappeared(d, n) ==
    /\ find_match(run.snapshot, d) # <<>>
    /\ n = find_match(run.snapshot, d)[1]
    /\ n.data.status = "archived"
    /\ marker_checksum(n.data.version.message) = Some(render(d, link_generator_of(run.snapshot, run.docs)).checksum)

\* C3: at the end of a run a managed current page that no local document
\* matches has received exactly one call, archive with reason "Orphaned",
\* and is archived; an orphan already archived has received no call; a page
\* archived whose file is back with unchanged content has received one
\* unarchive and no content update, and is current.
C3_OrphanLifecycle ==
    RunDone =>
        /\ \A n \in SnapshotNodes :
            Orphan(n) =>
                IF n.data.status = "current"
                THEN /\ CallsTo(n.id) = <<[op |-> "archive", id |-> n.id, reason |-> "Orphaned"]>>
                     /\ node_of(remote, n.id).status = "archived"
                ELSE /\ CallsTo(n.id) = <<>>
                     /\ node_of(remote, n.id).status = "archived"
        /\ \A d \in run.docs : \A n \in SnapshotNodes :
            Reappeared(d, n) =>
                /\ Len(SelectSeq(CallsTo(n.id), LAMBDA c : c.op = "unarchive")) = 1
                /\ \A i \in 1..Len(run.calls) :
                        run.calls[i].id = n.id => run.calls[i].op \in {"unarchive", "property"}
                /\ node_of(remote, n.id).status = "current"
                /\ node_of(remote, n.id).version = n.data.version

\* the file a was absent in the last run, which archived its page, and is
\* back with the content the page has
C3_Witness ==
    /\ RunDone /\ run.n = 2 /\ run.prev.ok
    /\ \A x \in run.prev.docs : x.source # PathA
    /\ \E d \in run.docs : \E n \in SnapshotNodes :
        /\ d.source = PathA /\ Reappeared(d, n)
        /\ CallsTo(n.id) = <<[op |-> "unarchive", id |-> n.id, reason |-> ""]>>
    /\ \E n \in SnapshotNodes :
        /\ Orphan(n) /\ n.data.status = "current"
        /\ node_of(remote, n.id).status = "archived"

\* the page or folder is not one this program wrote
Unmanaged(node) ==
    node.kind = "folder" \/ ~starts_with(node.version.message, version_message_prefix)

\* C4: no call of a run is issued against a folder or against a page whose
\* revision message does not start with the fixed prefix, and no step
\* changes such a node.
C4_UnmanagedUntouched ==
    /\ [](\A i \in 1..Len(remote) : Unmanaged(remote[i]) => CallsTo(remote[i].id) = <<>>)
    /\ [][\A i \in 1..Len(remote) : Unmanaged(remote[i]) => remote'[i] = remote[i]]_vars

\* a run has issued calls in a space that holds a page written by hand with
\* the title of a local document, and an archived one
C4_Witness ==
    /\ RunDone /\ run.n = 2 /\ Len(run.calls) >= 2
    /\ \E i \in 1..Len(remote) :
        /\ Unmanaged(remote[i]) /\ remote[i].kind = "page"
        /\ \E d \in run.docs : d.title = remote[i].title
    /\ \E i \in 1..Len(remote) : Unmanaged(remote[i]) /\ remote[i].properties # <<>>

(***************************************************************************)
(* Claims about registration and the run's failures.                       *)
(***************************************************************************)
\* two documents of the space have the same path key
Colliding == \E p \in links.pages, q \in links.pages :
                p.source # q.source /\ path_key(p.source) = path_key(q.source)

\* C11: when two local documents have the same path key no page is created
\* or rendered, and once both are registered the run is aborted with a
\* KeyConflict naming the two paths; when the path keys are pairwise
\* distinct no KeyConflict is reported and the run is never aborted.
C11_KeyConflict ==
    /\ Colliding =>
        /\ links.rendered = {} /\ links.created = 0
        /\ (\E p \in links.registered, q \in links.registered :
                p # q /\ path_key(p) = path_key(q)) => links.step = "aborted"
    /\ links.step = "aborted" =>
        /\ Len(links.registry.conflict) = 2
        /\ links.registry.conflict[1] # links.registry.conflict[2]
        /\ {links.registry.conflict[1], links.registry.conflict[2]} \subseteq Sources(links.pages)
        /\ path_key(links.registry.conflict[1]) = path_key(links.registry.conflict[2])
    /\ ~Colliding => links.registry.conflict = <<>> /\ links.step # "aborted"

\* the two spellings of docs/a.md were registered, and a third document was
\* left where it was
C11_Witness ==
    /\ links.step = "aborted"
    /\ links.registry.conflict \in {<<DocA, DocAlias>>, <<DocAlias, DocA>>}
    /\ Cardinality(links.pages) = 3
    /\ links.listed

\* the call that applies an item of the plan
OpOf(action) ==
    CASE action = "Create" -> "create"
      [] action = "UpdateContent" -> "update"
      [] action = "Archive" -> "archive"
      [] action = "Unarchive" -> "unarchive"
      [] action = "Property" -> "property"

\* a run is under way or has ended, its snapshot taken
Planned == run.pc \in {"applying", "ready"} /\ run.n + (IF run.pc = "applying" THEN 1 ELSE 0) >= 1
              /\ Failure("Panic", <<>>) \notin run.failures

\* every item of the plan so far has had its call, in the order of the plan
ItemsApplied ==
    /\ Len(run.calls) + Len(run.plan) = Len(run.planned)
    /\ \A i \in 1..Len(run.calls) :
        /\ run.calls[i].op = OpOf(run.planned[i].action)
        /\ IF run.planned[i].id # 0 THEN run.calls[i].id = run.planned[i].id
           ELSE \A n \in SnapshotNodes : n.id # run.calls[i].id
        /\ (run.planned[i].action = "Archive" /\ run.pc = "ready") =>
                node_of(remote, run.calls[i].id).status = "archived"

\* every failure is the RemoteConflict of a document whose update was
\* refused, the page as the other writer left it
ConflictsRecorded ==
    \A f \in run.failures :
        /\ f[1] = "RemoteConflict"
        /\ \E i \in 1..Len(run.calls) :
            /\ run.planned[i].action = "UpdateContent" /\ run.planned[i].source = f[2]
            /\ LET before == node_of(run.snapshot, run.calls[i].id).data.version
                   now == node_of(remote, run.calls[i].id).version
               IN  now.number # before.number /\ now.message = before.message

HeadingsOf(nodes) == SelectSeq(nodes, LAMBDA n : n.type = "Heading")

\* the document holds a local link that cannot be parsed
BadLink(nodes) == \E i \in 1..Len(nodes) : nodes[i] = Link(UrlAboveRoot)

\* the nodes without the first heading
WithoutFirstHeading(nodes) ==
    LET k == CHOOSE i \in 1..Len(nodes) :
                nodes[i].type = "Heading" /\ \A j \in 1..(i - 1) : nodes[j].type # "Heading"
    IN  SubSeq(nodes, 1, k - 1) \o SubSeq(nodes, k + 1, Len(nodes))

\* C13: parse_markdown fails, naming the source, exactly when the document
\* has no heading, its first heading is not of level 1, or a local link
\* cannot be parsed, each with its message; when it succeeds the title is
\* the text of the first heading and the rendered body is the document
\* without that heading; unknown front matter keys add a warning and change
\* nothing else.
C13_TitleAndParseErrors ==
    parse.step \in {"parsed", "rendered"} =>
        LET hs == HeadingsOf(parse.nodes)
            r == parse.result
        IN  /\ r.ok = (hs # <<>> /\ hs[1].level = 1 /\ ~BadLink(parse.nodes))
            /\ ~r.ok =>
                /\ r.v.source = parse.source
                /\ r.v.errors # {}
                /\ (ErrMissingHeading \in r.v.errors) = (hs = <<>>)
                /\ (ErrHeadingLevel \in r.v.errors) = (hs # <<>> /\ hs[1].level # 1)
                /\ (ErrLocalLink \in r.v.errors) = BadLink(parse.nodes)
            /\ r.ok =>
                /\ r.v.title = hs[1].text
                /\ r.v.source = parse.source
                /\ (r.v.warnings # <<>>) = (parse.fm.unknown_keys # <<>>)
                /\ parse.step = "rendered" =>
                    /\ parse.html = [i \in 1..(Len(parse.nodes) - 1) |->
                                        element(WithoutFirstHeading(parse.nodes)[i])]
                    /\ Len(SelectSeq(parse.html, LAMBDA e : e[1] = "h")) = Len(hs) - 1
            /\ r.ok = parse_markdown(parse.source, parse.nodes, FrontMatter("", <<>>)).ok

\* a page with unknown front matter keys, a paragraph before its title and
\* a second heading is parsed and rendered
C13_Witness ==
    /\ parse.step = "rendered"
    /\ parse.nodes = <<Paragraph("p"), Heading(1, "T"), Heading(2, "S")>>
    /\ parse.fm.unknown_keys # <<>>
    /\ parse.result.v.title = "T"
    /\ parse.html = <<<<"p", 0, "p">>, <<"h", 2, "S">>>>

(***************************************************************************)
(* Claims about the decision for a document.                               *)
(***************************************************************************)
DecisionsOf(d) == {dec \in run.decisions : dec[1] = d.source}
DecisionOf(d) == (CHOOSE dec \in DecisionsOf(d) : TRUE)[2]

\* the page a link to the path leads to once the run has ended: the page
\* of the local document of that path, else the last managed page naming it
FinalTarget(path) ==
    LET now == get_all(get_all_pages_in_space(remote), get_all_pages_from_homepage(remote))
        named == SelectSeq(now, LAMBDA n : managed_page(n) /\ n.data.path = Some(path))
    IN  IF \E x \in run.docs : x.source = path
        THEN find_match(now, CHOOSE x \in run.docs : x.source = path)[1].id
        ELSE IF named = <<>> THEN NoTarget ELSE named[Len(named)].id

\* the rendered content of a document once the run has ended
FinalContent(d) ==
    <<d.body, IF d.links = <<>> THEN NoTarget ELSE FinalTarget(d.links[1])>>

\* the items of the plan that unarchive or update the page of the document
StatusAndContentItems(d) ==
    LET items == SelectSeq(run.planned, LAMBDA it :
                    it.source = d.source /\ it.action \in {"Unarchive", "UpdateContent"})
    IN  [i \in 1..Len(items) |-> items[i].action]

\* C14: every local document gets exactly one decision; a document matched
\* to a managed page is NoOp exactly when the checksum of the page's marker
\* is the digest of the content as rendered with its links resolved, and
\* UpdateContent otherwise, body and marker rewritten; the page of a matched
\* document is unarchived first when it is archived, whatever the checksum.
C14_ChecksumDecision ==
    Planned =>
        \A d \in run.docs :
            LET found == find_match(run.snapshot, d)
                page == found[1]
                failed == \E f \in run.failures : f[2] = d.source
            IN  /\ Cardinality(DecisionsOf(d)) = 1
                /\ DecisionOf(d) \in {"Create", "UpdateContent", "UpdateMarkerOnly", "NoOp"}
                /\ (DecisionOf(d) = "Create") = (found = <<>>)
                /\ found # <<>> =>
                    /\ StatusAndContentItems(d) =
                            (IF page.data.status = "archived" THEN <<"Unarchive">> ELSE <<>>)
                            \o (IF DecisionOf(d) = "UpdateContent"
                                THEN <<"UpdateContent">> ELSE <<>>)
                    /\ (run.pc = "ready" /\ ~\E x \in run.docs : Failure("RemoteConflict", x.source) \in run.failures) =>
                        /\ (DecisionOf(d) = "NoOp") =
                                (marker_checksum(page.data.version.message)
                                    = Some(sha256_digest(FinalContent(d))))
                        /\ node_of(remote, page.id).status = "current"
                        /\ node_of(remote, page.id).version =
                                IF DecisionOf(d) = "NoOp" THEN page.data.version
                                ELSE Version(page.data.version.number + 1,
                                        version_message(d.source, sha256_digest(FinalContent(d))))

\* the file a was not touched since the last run, its link now leads to
\* the page created for b, and its page is updated
C14_Witness ==
    /\ Planned /\ run.pc = "ready" /\ run.n = 2 /\ run.prev.ok /\ run.failures = {}
    /\ \E d \in run.docs :
        /\ d.source = PathA /\ d.links = <<PathB>>
        /\ d \in run.prev.docs
        /\ \A x \in run.prev.docs : x.source # PathB
        /\ DecisionOf(d) = "UpdateContent"
        /\ FinalTarget(PathB) # NoTarget
    /\ \E c \in {run.calls[i] : i \in 1..Len(run.calls)} : c.op = "create"

\* the page of a document was archived and its content differs: it is
\* unarchived, then updated
C14_ArchivedWitness ==
    /\ Planned /\ run.pc = "ready" /\ run.failures = {}
    /\ \E d \in run.docs : StatusAndContentItems(d) = <<"Unarchive", "UpdateContent">>

(***************************************************************************)
(* Claims about the snapshot.                                              *)
(***************************************************************************)
PageNodes(snapshot) == SelectSeq(snapshot, LAMBDA n : page_data(n) # <<>>)
FolderNodes(snapshot) == SelectSeq(snapshot, LAMBDA n : page_data(n) = <<>>)
FolderRecords(items) == SelectSeq(items, LAMBDA d : d.v._type = "folder")

\* the snapshot holds a node for every record of the two listings that is a
\* page or a folder, in order; a folder has no page data and is no orphan
SnapshotHoldsEveryRecord ==
    /\ Len(PageNodes(fetch.snapshot)) = Len(fetch.pages)
    /\ \A i \in 1..Len(fetch.pages) :
        /\ PageNodes(fetch.snapshot)[i].id = fetch.pages[i].v.id
        /\ PageNodes(fetch.snapshot)[i].data.version = fetch.pages[i].v.version
        /\ PageNodes(fetch.snapshot)[i].data.status = fetch.pages[i].v.status
    /\ Len(FolderNodes(fetch.snapshot)) = Len(FolderRecords(fetch.descendants))
    /\ \A i \in 1..Len(FolderRecords(fetch.descendants)) :
        /\ FolderNodes(fetch.snapshot)[i].id = FolderRecords(fetch.descendants)[i].v.id
        /\ FolderNodes(fetch.snapshot)[i].data = ConfluenceFolder
    /\ Len(fetch.snapshot) = Len(fetch.pages) + Len(FolderRecords(fetch.descendants))
    /\ \A i \in 1..Len(fetch.orphaned) :
        \A n \in {fetch.snapshot[k] : k \in 1..Len(fetch.snapshot)} :
            n.id = fetch.orphaned[i].id => page_data(n) # <<>>

\* C15: once get_all has drained the listings the snapshot holds one node
\* for every page record and one folder node for every descendant of type
\* folder, no record omitted; folders carry no page data and are not
\* archived.
C15_SnapshotComplete ==
    fetch.step \in {"drained", "planned"} => SnapshotHoldsEveryRecord

\* the same when every record of the two listings comes through
C15_DeliveredListings ==
    (/\ fetch.step \in {"drained", "planned"}
     /\ \A i \in 1..Len(fetch.pages) : fetch.pages[i].ok
     /\ \A i \in 1..Len(fetch.descendants) : fetch.descendants[i].ok)
        => SnapshotHoldsEveryRecord

C15_DeliveredWitness ==
    /\ fetch.step = "planned"
    /\ Len(fetch.pages) = 2 /\ \A i \in 1..Len(fetch.pages) : fetch.pages[i].ok
    /\ fetch.descendants = <<Ok(Descendant(4, "W", "whiteboard")), Ok(Descendant(3, "F", "folder"))>>
    /\ Len(fetch.snapshot) = 3
    /\ Len(fetch.orphaned) = 1

(***************************************************************************)
(* Claims about the order of registration and rendering.                   *)
(***************************************************************************)
\* C16: a page is rendered, its links resolved, only when every page of the
\* space and the remote listing are registered, whatever the order of the
\* steps; and from the first rendering on the registry does not change.
C16_PublicationBarrier ==
    /\ [](links.rendered # {} =>
            links.registered = Sources(links.pages) /\ links.listed)
    /\ [][/\ links'.rendered # links.rendered =>
                /\ links.registered = Sources(links.pages) /\ links.listed
                /\ links'.registry = links.registry
          /\ links.rendered # {} => links'.registry = links.registry]_vars

\* three pages were registered, one was created, and all three are rendered
C16_Witness ==
    /\ Cardinality(links.rendered) = 3
    /\ links.created >= 1
    /\ Len(links.registry.filename_to_title) = 3

(***************************************************************************)
(* Claims about the limits of the marker.                                  *)
(***************************************************************************)
\* C17: for every message that starts with the fixed prefix, extract_path
\* returns a path or None and does not abort.
C17_DecodingTotal ==
    (marker.step \in {"decoded_encoded", "decoded_swapped", "decoded_foreign"}
        /\ BeginsWithFixedPrefix(marker.message))
        => marker.decoded.tag \in {"Some", "None"}

\* a path that holds '=' and is typical otherwise
TypicalButEquals(s) ==
    /\ Contains(s, "=") /\ ~Contains(s, ";") /\ ~Contains(s, "\\")
    /\ s[1] \notin Whitespace /\ s[Len(s)] \notin Whitespace

\* C18 as stated: the path recovered from the marker of a source path that
\* contains '=' differs from that path.
C18_EqualsMisparsed ==
    (marker.step = "decoded_encoded" /\ Contains(marker.source, "="))
        => marker.decoded # Some(marker.source)

\* C18: a source path that contains '=', and no ';', no backslash and no
\* outer whitespace, is recovered exactly from its marker, each clause being
\* split at its first '='; a source path that contains ';' is never
\* recovered.
C18_EqualsRecovered ==
    marker.step = "decoded_encoded" =>
        /\ TypicalButEquals(marker.source) => marker.decoded = Some(marker.source)
        /\ Contains(marker.source, ";") => marker.decoded # Some(marker.source)

C18_Witness ==
    /\ marker.step = "decoded_encoded"
    /\ marker.source = <<"a", "=", "a">>
    /\ marker.decoded = Some(marker.source)

=============================================================================
